---- MODULE Spec2Model ----
(***************************************************************************)
(* A model of FraminghamBMD.py: a linear analysis script that loads two    *)
(* spreadsheets, merges them into full_data, bins age and exam year,       *)
(* aggregates the t-score per bin pair, fits OLS models and selects each   *)
(* subject's first scan.  Every statement of the script that changes a     *)
(* table is one action; pc is the script's position.  pandas / patsy calls *)
(* are modelled by what they compute (searchsorted binning, one-pass group *)
(* sums and counts, label formatting and lexicographic level sorting,      *)
(* first-occurrence idxmin, label-based loc).                              *)
(***************************************************************************)
EXTENDS Integers, Sequences, FiniteSets, TLC

VARIABLES files, pc, err, full_data, bl, bl2, freq, full_data1, model,
          plot_data, model2, first_scan

vars == <<files, pc, err, full_data, bl, bl2, freq, full_data1, model,
          plot_data, model2, first_scan>>

(***************************************************************************)
(* Bounds of the input space.                                              *)
(***************************************************************************)
\* The largest number of rows the two spreadsheets hold together.
MaxRows == 2
\* How far the single-row inputs range below the lowest and above the
\* highest breakpoint of each binner.
Margin == 2

\* Subject identifiers, t-scores and scan dates of the multi-row inputs.
Ids == {1, 2}
Scores == {-1, 0}
ScanDates == { [kind |-> "date", y |-> 1989, m |-> 9],
               [kind |-> "date", y |-> 1990, m |-> 3],
               [kind |-> "date", y |-> 1991, m |-> 3] }
\* A cell of the scdt column that holds text no date parser accepts.
BadDate == [kind |-> "text", y |-> 0, m |-> 0]

(***************************************************************************)
(* Generic helpers.                                                        *)
(***************************************************************************)
NoValue == <<>>

Range(s) == { s[i] : i \in DOMAIN s }

RECURSIVE SumOver(_, _)
SumOver(S, f) ==
    IF S = {} THEN 0
    ELSE LET x == CHOOSE y \in S : TRUE IN f[x] + SumOver(S \ {x}, f)

RECURSIVE Gcd(_, _)
Gcd(a, b) == IF b = 0 THEN a ELSE Gcd(b, a % b)

Abs(n) == IF n < 0 THEN -n ELSE n

(***************************************************************************)
(* The two spreadsheets.  A file has a column set and rows over it.        *)
(***************************************************************************)
OriginalColumns == {"newid", "SEX", "scdt", "Exam", "age", "year_of_birth", "TScore"}
OffspringColumns == {"newID", "SEX", "scdt", "Exam", "age", "year_of_birth", "TScore"}

Cohorts == {"original", "offspring"}
Selected(cohort) == IF cohort = "original" THEN OriginalColumns ELSE OffspringColumns
IdColumn(cohort) == IF cohort = "original" THEN "newid" ELSE "newID"

\* Sex is an attribute of the subject (codes 1 and 2).
SexOf(id) == 1 + (id % 2)
\* The original cohort is a generation older than the offspring cohort.
BirthYear(cohort) == IF cohort = "original" THEN 1888 ELSE 1940

SheetRow(cohort, id, date, age, score) ==
    (IdColumn(cohort) :> id) @@
    [SEX |-> SexOf(id), scdt |-> date, Exam |-> 1, age |-> age,
     year_of_birth |-> date.y - age, TScore |-> score]

\* A visit of a subject of a cohort: the age follows from the scan date.
Visit(cohort, id, date, score) ==
    SheetRow(cohort, id, date, date.y - BirthYear(cohort), score)

Visits(cohort) ==
    { Visit(cohort, id, d, t) : id \in Ids, d \in ScanDates, t \in Scores }

Sheet(cohort, rows) == [exists |-> TRUE, columns |-> Selected(cohort), rows |-> rows]

MissingFile == [exists |-> FALSE, columns |-> {}, rows |-> <<>>]

\* The sheet with one of its columns left out.
WithoutColumn(sheet, col) ==
    [sheet EXCEPT !.columns = @ \ {col},
                  !.rows = [i \in DOMAIN @ |->
                              [c \in sheet.columns \ {col} |-> @[i][c]]]]

\* Inputs of 1..MaxRows well-formed visits, split between the two sheets.
MultiRowInputs ==
    UNION { { [original |-> Sheet("original", o), offspring |-> Sheet("offspring", f)] :
                o \in [1..nk[1] -> Visits("original")],
                f \in [1..nk[2] -> Visits("offspring")] } :
            nk \in { p \in (0..MaxRows) \X (0..MaxRows) : p[1] + p[2] \in 1..MaxRows } }

\* Inputs of one row whose age and exam year range over and beyond the
\* breakpoints of the two binners; the other sheet has no rows.
OneRow(cohort, age, year) ==
    [c \in Cohorts |->
        Sheet(c, IF c = cohort
                 THEN << SheetRow(c, 1, [kind |-> "date", y |-> year, m |-> 6], age, -1) >>
                 ELSE << >>)]

SingleRowInputs ==
    { OneRow(c, a, yr) : c \in Cohorts,
                         a \in (30 - Margin)..(101 + Margin),
                         yr \in (1985 - Margin)..(2010 + Margin) }

\* Inputs the script cannot load: a file that does not exist, a sheet that
\* lacks one of the selected columns, a scan date that is not a date.
GoodPair ==
    [c \in Cohorts |-> Sheet(c, << Visit(c, 1, [kind |-> "date", y |-> 1990, m |-> 3], 0) >>)]

WithBadDate(sheet, at) ==
    [sheet EXCEPT !.rows = [i \in DOMAIN @ |->
                              IF i = at THEN [@[i] EXCEPT !.scdt = BadDate] ELSE @[i]]]

MissingFileInputs == { [GoodPair EXCEPT ![c] = MissingFile] : c \in Cohorts }

MissingColumnInputs ==
    UNION { { [GoodPair EXCEPT ![c] = WithoutColumn(@, col)] : col \in Selected(c) } :
            c \in Cohorts }

BadDateInputs ==
    UNION { UNION { { [x EXCEPT ![c] = WithBadDate(@, i)] : i \in DOMAIN x[c].rows } :
                    c \in Cohorts } :
            x \in { y \in MultiRowInputs :
                      \A r \in Range(y.original.rows) \cup Range(y.offspring.rows) :
                          r.TScore = 0 /\ r.scdt.y = 1990 } }

Inputs ==
    MultiRowInputs \cup SingleRowInputs \cup MissingFileInputs
        \cup MissingColumnInputs \cup BadDateInputs

(***************************************************************************)
(* Data frames: an index of row labels, a column set, and the rows.        *)
(***************************************************************************)
\* The value pandas fills in where a frame has no value for a column.
NaN == -1000000

Frame(index, columns, rows) == [index |-> index, columns |-> columns, rows |-> rows]

EmptyFrame == Frame(<< >>, {}, << >>)

NRows(df) == Len(df.rows)

\* RangeIndex(n): the labels 0 .. n-1.
RangeIndex(n) == [i \in 1..n |-> i - 1]

\* str.lower on the column names the two sheets use.
Lower(name) ==
    CASE name = "newID"  -> "newid"
      [] name = "SEX"    -> "sex"
      [] name = "Exam"   -> "exam"
      [] name = "TScore" -> "tscore"
      [] OTHER           -> name

\* df[cols] of a sheet read by pd.read_excel.
ReadExcel(sheet, cols) ==
    Frame(RangeIndex(Len(sheet.rows)), cols,
          [i \in DOMAIN sheet.rows |-> [c \in cols |-> sheet.rows[i][c]]])

\* df.columns = map(str.lower, df.columns)
LowerColumns(df) ==
    Frame(df.index, { Lower(c) : c \in df.columns },
          [i \in DOMAIN df.rows |->
              [c \in { Lower(k) : k \in df.columns } |->
                  df.rows[i][CHOOSE k \in df.columns : Lower(k) = c]]])

\* df[name] = values (a new column, or an existing one replaced).
SetColumn(df, name, values) ==
    Frame(df.index, df.columns \cup {name},
          [i \in DOMAIN df.rows |->
              [c \in df.columns \cup {name} |->
                  IF c = name THEN values[i] ELSE df.rows[i][c]]])

\* df[name] = constant
SetConstant(df, name, value) == SetColumn(df, name, [i \in DOMAIN df.rows |-> value])

\* A variant of Concat that drops repeated rows.
RECURSIVE Distinct(_)
Distinct(rows) ==
    IF rows = << >> THEN << >>
    ELSE LET init == Distinct(SubSeq(rows, 1, Len(rows) - 1))
             last == rows[Len(rows)]
         IN  IF last \in Range(init) THEN init ELSE Append(init, last)

ConcatDropDuplicates(a, b) ==
    LET rows == Distinct(a.rows \o b.rows)
    IN  Frame(RangeIndex(Len(rows)), a.columns \cup b.columns, rows)

\* A variant of Concat without ignore_index: each row keeps its own label.
ConcatKeepIndex(a, b) ==
    Frame(a.index \o b.index, a.columns \cup b.columns, a.rows \o b.rows)

\* pd.concat([a, b], ignore_index=True, axis=0): the rows of a, then those
\* of b, over the union of the columns, relabelled 0 .. n-1.
Concat(a, b) ==
    LET cols == a.columns \cup b.columns
        Fill(df) == [i \in DOMAIN df.rows |->
                        [c \in cols |-> IF c \in df.columns THEN df.rows[i][c] ELSE NaN]]
    IN  Frame(RangeIndex(NRows(a) + NRows(b)), cols, Fill(a) \o Fill(b))

\* One source as the script prepares it (lines 36-41).
Prepared(cohort) ==
    SetConstant(LowerColumns(ReadExcel(files[cohort], Selected(cohort))), "cohort", cohort)

\* What reading a source raises, "" when it loads.
ReadError(cohort) ==
    IF ~files[cohort].exists THEN "FileNotFoundError"
    ELSE IF ~(Selected(cohort) \subseteq files[cohort].columns) THEN "KeyError"
    ELSE ""

(***************************************************************************)
(* Binning (pd.cut with right-closed intervals).                           *)
(***************************************************************************)
\* The code of a categorical value that is missing.
NA == -1

\* Line 49: the age breakpoints.
AgeBins == <<30, 50, 60, 70, 80, 101>>

\* range(start, stop, step) for a positive step, as a sequence.
PyRange(start, stop, step) ==
    [i \in 1..(IF stop > start THEN (stop - start + step - 1) \div step ELSE 0) |->
        start + (i - 1) * step]

\* Line 51: the exam-year breakpoints.
YearBins == PyRange(1985, 2011, 5)

\* A variant of SearchSorted: side="right", the breakpoints at or below x.
SearchSortedRight(bins, x) == Cardinality({ i \in DOMAIN bins : bins[i] <= x })

\* bins.searchsorted(x, side="left"): how many breakpoints lie below x.
SearchSorted(bins, x) == Cardinality({ i \in DOMAIN bins : bins[i] < x })

\* A variant of Cut: right=False, the intervals [bins[k], bins[k+1]).
CutClosedLeft(x, bins) ==
    LET ids == Cardinality({ i \in DOMAIN bins : bins[i] <= x })
    IN  IF x = NaN \/ ids = 0 \/ ids = Len(bins) THEN NA ELSE ids - 1

\* pd.cut(x, bins) for one value: the code of the interval (bins[k], bins[k+1]]
\* holding x, NA when x is missing, at or below the first breakpoint, or
\* above the last.
Cut(x, bins) ==
    LET ids == SearchSorted(bins, x)
    IN  IF x = NaN \/ ids = 0 \/ ids = Len(bins) THEN NA ELSE ids - 1

\* The categories of pd.cut(_, bins): codes 0 .. len(bins)-2.
Categories(bins) == 0..(Len(bins) - 2)

\* The interval a code stands for.
Interval(bins, code) == [left |-> bins[code + 1], right |-> bins[code + 2]]

\* pd.DatetimeIndex(column).year
YearOf(date) == date.y

(***************************************************************************)
(* Aggregation (groupby / mean, pivot, crosstab).                          *)
(***************************************************************************)
\* A mean is an exact fraction in lowest terms; den = 0 is NaN, the mean of
\* an empty group.
NaNMean == [num |-> 0, den |-> 0]

Mean(sum, nobs) ==
    IF nobs = 0 THEN NaNMean
    ELSE LET g == Gcd(Abs(sum), nobs)
         IN  [num |-> sum \div g, den |-> nobs \div g]

\* A variant of GroupId with the two keys taken in the other order.
GroupIdSwapped(outer, inner, ninner) ==
    IF outer = NA \/ inner = NA THEN NA ELSE inner * ninner + outer

\* The group number of a row under groupby([outer, inner]): NA when either
\* key is missing (such rows belong to no group).
GroupId(outer, inner, ninner) ==
    IF outer = NA \/ inner = NA THEN NA ELSE outer * ninner + inner

\* One pass over rows from..n, adding each row's score to the sum and the
\* count of its group.
RECURSIVE Accumulate(_, _, _, _)
Accumulate(rows, from, ninner, acc) ==
    IF from > Len(rows) THEN acc
    ELSE LET g == GroupId(rows[from].half_decs, rows[from].age_groups, ninner)
         IN  Accumulate(rows, from + 1, ninner,
                 IF g = NA THEN acc
                 ELSE [acc EXCEPT ![g] = [sum  |-> @.sum + rows[from].tscore,
                                          nobs |-> @.nobs + 1]])

\* Line 52: df.groupby(['half_decs','age_groups'], as_index=False)['tscore'].mean().
\* Both keys are categorical: the result has one row per pair of categories,
\* ordered by half_decs, then age_groups, NaN where the group is empty.
GroupMean(df) ==
    LET nh  == Cardinality(Categories(YearBins))
        na  == Cardinality(Categories(AgeBins))
        acc == Accumulate(df.rows, 1, na,
                          [g \in 0..(nh * na - 1) |-> [sum |-> 0, nobs |-> 0]])
    IN  [k \in 1..(nh * na) |->
            [half_decs  |-> (k - 1) \div na,
             age_groups |-> (k - 1) % na,
             tscore     |-> Mean(acc[k - 1].sum, acc[k - 1].nobs)]]

\* Line 53: bl.pivot(columns='half_decs', index='age_groups', values='tscore')
Pivot(tbl) ==
    [a \in { r.age_groups : r \in Range(tbl) } |->
        [h \in { r.half_decs : r \in Range(tbl) } |->
            (CHOOSE r \in Range(tbl) : r.age_groups = a /\ r.half_decs = h).tscore]]

\* Line 56: pd.crosstab(df.age_groups, df.half_decs): the number of rows per
\* pair, over the age groups and the half-decades that occur among the rows
\* with both bins present.
Crosstab(df) ==
    LET full == { i \in DOMAIN df.rows :
                    df.rows[i].age_groups # NA /\ df.rows[i].half_decs # NA }
    IN  [a \in { df.rows[i].age_groups : i \in full } |->
            [h \in { df.rows[i].half_decs : i \in full } |->
                Cardinality({ i \in full : /\ df.rows[i].age_groups = a
                                           /\ df.rows[i].half_decs = h })]]

(***************************************************************************)
(* Model fitting: the levels of the categorical predictors.                *)
(***************************************************************************)
\* str(n) for n >= 0, as character codes.
RECURSIVE Digits(_)
Digits(n) == IF n < 10 THEN << 48 + n >> ELSE Digits(n \div 10) \o << 48 + (n % 10) >>

\* str(interval): "(left, right]"
IntervalLabel(iv) == << 40 >> \o Digits(iv.left) \o << 44, 32 >> \o Digits(iv.right) \o << 93 >>

\* A variant of NaNLabel: the empty string.
EmptyLabel == << >>

\* The string of a missing value: "nan"
NaNLabel == << 110, 97, 110 >>

\* column.astype(str) for one categorical value.
AsStr(bins, code) == IF code = NA THEN NaNLabel ELSE IntervalLabel(Interval(bins, code))

\* Python's order on strings.
StrLess(a, b) ==
    \E k \in 1..(Len(a) + 1) :
        /\ k <= Len(b)
        /\ \A i \in 1..(k - 1) : a[i] = b[i]
        /\ (k = Len(a) + 1 \/ a[k] < b[k])

\* sorted(set(values)) for strings.
RECURSIVE SortedStrs(_)
SortedStrs(S) ==
    IF S = {} THEN << >>
    ELSE LET least == CHOOSE x \in S : \A y \in S \ {x} : StrLess(x, y)
         IN  << least >> \o SortedStrs(S \ {least})

\* sorted(set(values)) for integers.
RECURSIVE SortedInts(_)
SortedInts(S) ==
    IF S = {} THEN << >>
    ELSE LET least == CHOOSE x \in S : \A y \in S : x <= y
         IN  << least >> \o SortedInts(S \ {least})

\* The levels patsy gives a column of strings: its distinct values, sorted.
\* The first level is the reference (treatment coding).
StrLevels(df, name) == SortedStrs({ r[name] : r \in Range(df.rows) })

\* The levels patsy gives a pandas categorical: its categories, in order.
CategoricalLevels(bins) == SortedInts(Categories(bins))

(***************************************************************************)
(* First scans.                                                            *)
(***************************************************************************)
DateLess(a, b) == a.y < b.y \/ (a.y = b.y /\ a.m < b.m)

\* Series.idxmin over the rows at positions from..n of one group: the
\* position of the smallest date, the first one among equals.
RECURSIVE ArgMin(_, _, _, _)
ArgMin(df, id, from, best) ==
    IF from > NRows(df) THEN best
    ELSE ArgMin(df, id, from + 1,
                IF df.rows[from].newid # id THEN best
                ELSE IF best = 0 THEN from
                ELSE IF DateLess(df.rows[from].scdt, df.rows[best].scdt) THEN from
                ELSE best)

\* Line 117: df.groupby('newid')['scdt'].idxmin(): per subject, in the order
\* of the sorted identifiers, the index label of its earliest scan.
IdxMin(df) ==
    LET keys == SortedInts({ r.newid : r \in Range(df.rows) })
    IN  [k \in DOMAIN keys |-> df.index[ArgMin(df, keys[k], 1, 0)]]

\* The positions of df whose index label is lbl, in order.
RECURSIVE Positions(_, _, _)
Positions(df, lbl, from) ==
    IF from > NRows(df) THEN << >>
    ELSE (IF df.index[from] = lbl THEN << from >> ELSE << >>) \o Positions(df, lbl, from + 1)

RECURSIVE LocPositions(_, _, _)
LocPositions(df, labels, k) ==
    IF k > Len(labels) THEN << >>
    ELSE Positions(df, labels[k], 1) \o LocPositions(df, labels, k + 1)

\* Line 118: df.loc[labels, :]: a new frame of the rows carrying each label,
\* in the order of the labels.
Loc(df, labels) ==
    LET ps == LocPositions(df, labels, 1)
    IN  Frame([k \in DOMAIN ps |-> df.index[ps[k]]], df.columns,
              [k \in DOMAIN ps |-> df.rows[ps[k]]])

\* Lines 80, 97: sex.replace({1: 'Male', 2: 'Female'})
SexLabel(code) ==
    CASE code = 1 -> "Male"
      [] code = 2 -> "Female"
      [] OTHER    -> code

(***************************************************************************)
(* The script.                                                             *)
(***************************************************************************)
Init ==
    /\ files \in Inputs
    /\ pc = "load"
    /\ err = ""
    /\ full_data = EmptyFrame
    /\ bl = NoValue
    /\ bl2 = NoValue
    /\ freq = NoValue
    /\ full_data1 = EmptyFrame
    /\ model = NoValue
    /\ plot_data = EmptyFrame
    /\ model2 = NoValue
    /\ first_scan = EmptyFrame

\* Lines 36-43: read both sheets, lower-case the column names, tag each
\* with its cohort, concatenate.
Load ==
    /\ pc = "load"
    /\ ReadError("original") = "" /\ ReadError("offspring") = ""
    /\ full_data' = Concat(Prepared("original"), Prepared("offspring"))
    /\ pc' = "age_groups"
    /\ UNCHANGED <<files, err, bl, bl2, freq, full_data1, model, plot_data, model2, first_scan>>

\* Lines 36-37: a read raises; nothing handles it and the script stops.
LoadError ==
    /\ pc = "load"
    /\ ReadError("original") # "" \/ ReadError("offspring") # ""
    /\ err' = IF ReadError("original") # "" THEN ReadError("original")
              ELSE ReadError("offspring")
    /\ pc' = "error"
    /\ UNCHANGED <<files, full_data, bl, bl2, freq, full_data1, model, plot_data, model2, first_scan>>

\* A variant of WithAgeGroups that also writes the codes over the age column.
WithAgeGroupsOverAge(df) ==
    LET codes == [i \in DOMAIN df.rows |-> Cut(df.rows[i].age, AgeBins)]
    IN  SetColumn(SetColumn(df, "age_groups", codes), "age", codes)

\* Line 49: full_data['age_groups'] = pd.cut(full_data.age, [30,50,60,70,80,101])
WithAgeGroups(df) ==
    SetColumn(df, "age_groups", [i \in DOMAIN df.rows |-> Cut(df.rows[i].age, AgeBins)])

\* Line 50: full_data['exam_year'] = pd.DatetimeIndex(full_data['scdt']).year
WithExamYear(df) ==
    SetColumn(df, "exam_year", [i \in DOMAIN df.rows |-> YearOf(df.rows[i].scdt)])

\* Line 51: full_data['half_decs'] = pd.cut(full_data.exam_year, range(1985,2011,5))
WithHalfDecs(df) ==
    SetColumn(df, "half_decs", [i \in DOMAIN df.rows |-> Cut(df.rows[i].exam_year, YearBins)])

\* Lines 69-71: a copy of df with both bins cast to strings.
WithStringBins(df) ==
    SetColumn(SetColumn(df, "age_groups",
                        [i \in DOMAIN df.rows |-> AsStr(AgeBins, df.rows[i].age_groups)]),
              "half_decs",
              [i \in DOMAIN df.rows |-> AsStr(YearBins, df.rows[i].half_decs)])

\* Lines 79-80, 96-97: a copy of df with the sex codes replaced by labels.
WithSexLabels(df) ==
    SetColumn(df, "sex", [i \in DOMAIN df.rows |-> SexLabel(df.rows[i].sex)])

\* The rows patsy keeps for the second model: those with both bins present.
CompleteRows(df) ==
    { i \in DOMAIN df.rows : df.rows[i].age_groups # NA /\ df.rows[i].half_decs # NA }

\* A variant of DateError: errors='coerce', nothing is raised.
DateErrorCoerced(df) == ""

\* Line 50: what converting the scdt column raises, "" when every cell is a
\* date.
DateError(df) ==
    IF \E r \in Range(df.rows) : r.scdt.kind # "date" THEN "ValueError" ELSE ""

CutAge ==
    /\ pc = "age_groups"
    /\ full_data' = WithAgeGroups(full_data)
    /\ pc' = "exam_year"
    /\ UNCHANGED <<files, err, bl, bl2, freq, full_data1, model, plot_data, model2, first_scan>>

ExamYear ==
    /\ pc = "exam_year"
    /\ DateError(full_data) = ""
    /\ full_data' = WithExamYear(full_data)
    /\ pc' = "half_decs"
    /\ UNCHANGED <<files, err, bl, bl2, freq, full_data1, model, plot_data, model2, first_scan>>

\* Line 50: a cell of scdt cannot be parsed as a date; the conversion
\* raises, nothing handles it and the script stops.
ExamYearError ==
    /\ pc = "exam_year"
    /\ DateError(full_data) # ""
    /\ err' = DateError(full_data)
    /\ pc' = "error"
    /\ UNCHANGED <<files, full_data, bl, bl2, freq, full_data1, model, plot_data, model2, first_scan>>

CutYear ==
    /\ pc = "half_decs"
    /\ full_data' = WithHalfDecs(full_data)
    /\ pc' = "groupby"
    /\ UNCHANGED <<files, err, bl, bl2, freq, full_data1, model, plot_data, model2, first_scan>>

\* Line 52.
Aggregate ==
    /\ pc = "groupby"
    /\ bl' = GroupMean(full_data)
    /\ pc' = "pivot"
    /\ UNCHANGED <<files, err, full_data, bl2, freq, full_data1, model, plot_data, model2, first_scan>>

\* Lines 53-54.
PivotTable ==
    /\ pc = "pivot"
    /\ bl2' = Pivot(bl)
    /\ pc' = "crosstab"
    /\ UNCHANGED <<files, err, full_data, bl, freq, full_data1, model, plot_data, model2, first_scan>>

\* Lines 56-65: the frequency table, then a point plot of full_data.
CrossTabulate ==
    /\ pc = "crosstab"
    /\ freq' = Crosstab(full_data)
    /\ pc' = "model"
    /\ UNCHANGED <<files, err, full_data, bl, bl2, full_data1, model, plot_data, model2, first_scan>>

\* Lines 69-73: the first model, fitted on a copy whose bins are strings.
\* Of the fit only the levels of the two factors are kept; the first level
\* of each is the reference group of the coefficient table.
FitModel ==
    /\ pc = "model"
    /\ full_data1' = WithStringBins(full_data)
    /\ model' = [age_groups |-> StrLevels(WithStringBins(full_data), "age_groups"),
                 half_decs  |-> StrLevels(WithStringBins(full_data), "half_decs")]
    /\ pc' = "plot_sex"
    /\ UNCHANGED <<files, err, full_data, bl, bl2, freq, plot_data, model2, first_scan>>

\* Lines 79-89: plots by sex, drawn from a relabelled copy.
PlotBySex ==
    /\ pc = "plot_sex"
    /\ plot_data' = WithSexLabels(full_data)
    /\ pc' = "model2"
    /\ UNCHANGED <<files, err, full_data, bl, bl2, freq, full_data1, model, model2, first_scan>>

\* Lines 91-94: the second model, fitted on full_data itself; its factors
\* are the categorical bins, whose levels are the categories in their
\* defined order.  Rows with a missing bin are dropped.
FitModel2 ==
    /\ pc = "model2"
    /\ CompleteRows(full_data) # {}
    /\ model2' = [age_groups |-> CategoricalLevels(AgeBins),
                  half_decs  |-> CategoricalLevels(YearBins),
                  nobs       |-> Cardinality(CompleteRows(full_data))]
    /\ pc' = "plot_age"
    /\ UNCHANGED <<files, err, full_data, bl, bl2, freq, full_data1, model, plot_data, first_scan>>

\* Line 91: every row has a missing bin, the design matrix has no rows and
\* building the model raises.
FitModel2Error ==
    /\ pc = "model2"
    /\ CompleteRows(full_data) = {}
    /\ err' = "ValueError"
    /\ pc' = "error"
    /\ UNCHANGED <<files, full_data, bl, bl2, freq, full_data1, model, plot_data, model2, first_scan>>

\* Lines 96-115: plots by age group from a fresh relabelled copy, then the
\* per-subject trajectories of full_data.
PlotByAgeGroup ==
    /\ pc = "plot_age"
    /\ plot_data' = WithSexLabels(full_data)
    /\ pc' = "first_scan"
    /\ UNCHANGED <<files, err, full_data, bl, bl2, freq, full_data1, model, model2, first_scan>>

\* Lines 117-133: each subject's earliest scan, as a new frame (the cast of
\* its sex column to a category keeps the values), then the scatter plots.
FirstScan ==
    /\ pc = "first_scan"
    /\ first_scan' = Loc(full_data, IdxMin(full_data))
    /\ pc' = "done"
    /\ UNCHANGED <<files, err, full_data, bl, bl2, freq, full_data1, model, plot_data, model2>>

Next ==
    \/ Load
    \/ LoadError
    \/ CutAge
    \/ ExamYear
    \/ ExamYearError
    \/ CutYear
    \/ Aggregate
    \/ PivotTable
    \/ CrossTabulate
    \/ FitModel
    \/ PlotBySex
    \/ FitModel2
    \/ FitModel2Error
    \/ PlotByAgeGroup
    \/ FirstScan

Spec == Init /\ [][Next]_vars

(***************************************************************************)
(* Properties.                                                             *)
(***************************************************************************)
Rows == full_data.rows
HasColumn(name) == name \in full_data.columns

\* C1 (as stated): once the age groups are computed, every record whose age
\* lies outside [30, 101), that is below 30 or at least 101, has the
\* missing marker as its age group.
C1_MissingOutsideClosedOpen ==
    HasColumn("age_groups") =>
        \A i \in DOMAIN Rows :
            (Rows[i].age < 30 \/ Rows[i].age >= 101) => Rows[i].age_groups = NA

\* C1 (amended): once the age groups are computed, a record has the missing
\* marker as its age group exactly when its age lies outside (30, 101], that
\* is at most 30 or above 101; an age of exactly 101 is in the last group,
\* (80, 101].
C1_MissingOutsideOpenClosed ==
    HasColumn("age_groups") =>
        \A i \in DOMAIN Rows :
            /\ (Rows[i].age <= 30 \/ Rows[i].age > 101) <=> Rows[i].age_groups = NA
            /\ Rows[i].age = 101 =>
                  /\ Rows[i].age_groups # NA
                  /\ Interval(AgeBins, Rows[i].age_groups) = [left |-> 80, right |-> 101]

\* C1 witness: a table binned by age that holds a record aged 101, placed
\* in the last group, and a record above 101, marked missing.
C1_Witness ==
    /\ HasColumn("age_groups")
    /\ \E i, j \in DOMAIN Rows :
          /\ Rows[i].age = 101 /\ Rows[i].age_groups = 4
          /\ Rows[j].age > 101 /\ Rows[j].age_groups = NA

\* A value v is binned half-open by breakpoints: when v is above the first
\* and at most the last breakpoint its code names the one interval
\* (lo, hi] of consecutive breakpoints with lo < v <= hi.
HalfOpen(v, code, bins) ==
    (bins[1] < v /\ v <= bins[Len(bins)]) =>
        /\ code \in Categories(bins)
        /\ \A k \in Categories(bins) :
              (bins[k + 1] < v /\ v <= bins[k + 2]) <=> k = code
        /\ \A j \in 2..Len(bins) : v = bins[j] => Interval(bins, code).right = v

\* C2: both binners are half-open and consistent: every age in (30, 101]
\* and every exam year in (1985, 2010] falls in exactly one interval
\* (lo, hi] of consecutive breakpoints, and a value equal to a breakpoint
\* falls in the interval that breakpoint closes.
C2_HalfOpenBins ==
    /\ HasColumn("age_groups") =>
          \A i \in DOMAIN Rows : HalfOpen(Rows[i].age, Rows[i].age_groups, AgeBins)
    /\ HasColumn("half_decs") =>
          \A i \in DOMAIN Rows : HalfOpen(Rows[i].exam_year, Rows[i].half_decs, YearBins)

\* C2 witness: a binned record aged exactly 50 examined in exactly 1990, in
\* the groups (30, 50] and (1985, 1990].
C2_Witness ==
    /\ HasColumn("half_decs")
    /\ \E i \in DOMAIN Rows :
          /\ Rows[i].age = 50 /\ Rows[i].age_groups = 0
          /\ Rows[i].exam_year = 1990 /\ Rows[i].half_decs = 0

Merged == full_data.columns # {}

\* The row of the merged table at position i is the source row r of the
\* cohort: the same values under the lower-cased column names, and the
\* cohort's label.
SameRecord(i, cohort, r) ==
    /\ \A c \in Selected(cohort) : Rows[i][Lower(c)] = r[c]
    /\ Rows[i].cohort = cohort

\* C3: the merged table has as many rows as the two sources together: it
\* holds the original records, then the offspring records, each once, in
\* order and under the cohort label of its source.
C3_RowCountIsSum ==
    Merged =>
        LET o == files.original.rows
            f == files.offspring.rows
        IN  /\ NRows(full_data) = Len(o) + Len(f)
            /\ \A i \in DOMAIN o : SameRecord(i, "original", o[i])
            /\ \A i \in DOMAIN f : SameRecord(Len(o) + i, "offspring", f[i])

\* C3 witness: a merged table of one record from each source.
C3_Witness ==
    /\ Merged
    /\ Len(files.original.rows) = 1 /\ Len(files.offspring.rows) = 1
    /\ NRows(full_data) = 2
    /\ Rows[1].cohort = "original" /\ Rows[2].cohort = "offspring"

\* The indices of the records whose bins are the pair (a, h).
Cell(a, h) == { i \in DOMAIN Rows : Rows[i].age_groups = a /\ Rows[i].half_decs = h }

Tscores == [i \in DOMAIN Rows |-> Rows[i].tscore]

\* C4: the pivoted table has one cell per (age group, half-decade) pair of
\* the two category sets; a cell is the sum of the scores of the records
\* with exactly that pair of bins divided by their number, and NaN when
\* there is none; records with a missing bin are in no cell.
C4_GroupMeans ==
    DOMAIN bl2 # {} =>
        /\ DOMAIN bl2 = Categories(AgeBins)
        /\ \A a \in DOMAIN bl2 :
              /\ DOMAIN bl2[a] = Categories(YearBins)
              /\ \A h \in DOMAIN bl2[a] :
                    IF Cell(a, h) = {} THEN bl2[a][h] = NaNMean
                    ELSE /\ bl2[a][h].den > 0
                         /\ bl2[a][h].num * Cardinality(Cell(a, h))
                              = SumOver(Cell(a, h), Tscores) * bl2[a][h].den

\* C4 witness: a pivoted table with a cell of two records whose mean is
\* -1/2, off the diagonal of the table.
C4_Witness ==
    /\ DOMAIN bl2 # {}
    /\ \E a \in DOMAIN bl2 : \E h \in DOMAIN bl2[a] :
          /\ a # h
          /\ Cardinality(Cell(a, h)) = 2
          /\ bl2[a][h] = [num |-> -1, den |-> 2]

\* C5: in the merged table no two records with the same subject identifier
\* carry different cohort labels.
C5_SubjectDeterminesCohort ==
    Merged =>
        \A i, j \in DOMAIN Rows :
            Rows[i].newid = Rows[j].newid => Rows[i].cohort = Rows[j].cohort

\* The attributes a record is loaded with.
LoadedColumns ==
    {"newid", "sex", "scdt", "exam", "age", "year_of_birth", "tscore", "cohort"}

\* C6: once the table is merged no step changes its row set (the rows and
\* their labels) or a loaded attribute of any record; steps add derived
\* columns or work on copies.
C6_RecordsImmutable ==
    [][ Merged =>
          /\ full_data'.index = full_data.index
          /\ LoadedColumns \subseteq full_data'.columns
          /\ DOMAIN full_data'.rows = DOMAIN full_data.rows
          /\ \A i \in DOMAIN full_data.rows : \A c \in LoadedColumns :
                full_data'.rows[i][c] = full_data.rows[i][c] ]_vars

\* C6 witness: the script has run to its end: the bins were added, the
\* string copy and the relabelled copy were made (plot_data says 'Male'
\* where full_data still holds the code 1), and the first scans selected.
C6_Witness ==
    /\ pc = "done"
    /\ HasColumn("age_groups") /\ HasColumn("half_decs")
    /\ NRows(first_scan) > 0 /\ NRows(full_data1) > 0
    /\ \E i \in DOMAIN Rows : Rows[i].sex = 1 /\ plot_data.rows[i].sex = "Male"

Fitted == DOMAIN model # {}

\* The labels of the first interval of each binner: "(30, 50]" and
\* "(1985, 1990]".
FirstAgeLabel == IntervalLabel(Interval(AgeBins, 0))
FirstYearLabel == IntervalLabel(Interval(YearBins, 0))

ReferenceIsLeast(levels, name, first) ==
    /\ \E r \in Range(full_data1.rows) : r[name] = levels[1]
    /\ \A r \in Range(full_data1.rows) : r[name] = levels[1] \/ StrLess(levels[1], r[name])
    /\ (\E r \in Range(Rows) : r[name] = 0) => levels[1] = first

Unloadable ==
    \E c \in Cohorts : ~files[c].exists \/ ~(Selected(c) \subseteq files[c].columns)

\* The input loads but a scan date is not a date.
Malformed ==
    /\ ~Unloadable
    /\ \E c \in Cohorts : \E r \in Range(files[c].rows) : r.scdt.kind # "date"

\* No step after the exam-year step has run.
NothingLater ==
    /\ ~HasColumn("exam_year") /\ ~HasColumn("half_decs")
    /\ DOMAIN bl = {} /\ DOMAIN bl2 = {} /\ DOMAIN freq = {}
    /\ full_data1 = EmptyFrame /\ DOMAIN model = {}
    /\ plot_data = EmptyFrame /\ DOMAIN model2 = {}
    /\ first_scan = EmptyFrame

Subjects(a, h) == { Rows[i].newid : i \in Cell(a, h) }

\* C9: every cell of the frequency table is the number of distinct
\* subjects with a record in that (age group, half-decade) pair.
C9_FrequenciesCountSubjects ==
    DOMAIN freq # {} =>
        \A a \in DOMAIN freq : \A h \in DOMAIN freq[a] :
            freq[a][h] = Cardinality(Subjects(a, h))

\* The position p of full_data holds the earliest scan of its subject, the
\* first such row among equal dates.
IsFirstScan(p) ==
    \A q \in DOMAIN Rows :
        Rows[q].newid = Rows[p].newid =>
            /\ ~DateLess(Rows[q].scdt, Rows[p].scdt)
            /\ Rows[q].scdt = Rows[p].scdt => p <= q

\* C10: first_scan holds exactly one record per distinct subject of the
\* merged table; each is a row of full_data, the one with the subject's
\* earliest scan date (the first such row on ties).
C10_FirstScanPerSubject ==
    pc = "done" =>
        /\ { r.newid : r \in Range(first_scan.rows) } = { r.newid : r \in Range(Rows) }
        /\ NRows(first_scan) = Cardinality({ r.newid : r \in Range(Rows) })
        /\ \A k \in DOMAIN first_scan.rows :
              \E p \in DOMAIN Rows :
                  /\ full_data.index[p] = first_scan.index[k]
                  /\ Rows[p] = first_scan.rows[k]
                  /\ IsFirstScan(p)

\* C10 witness: a subject whose two scans are listed latest first; the
\* first scan selected is the second row, the earlier one.
C10_Witness ==
    /\ pc = "done"
    /\ NRows(full_data) = 2
    /\ Rows[1].newid = Rows[2].newid
    /\ DateLess(Rows[2].scdt, Rows[1].scdt)
    /\ first_scan.index = << 1 >>
    /\ first_scan.rows = << Rows[2] >>

====
